---- MODULE Spec2Model ----
(***************************************************************************)
(* Model of scripts/decode_cap.py: the decoder of a CHERIoT compressed     *)
(* capability (address + metadata word) into permissions, bounds and       *)
(* object type.  The script is a straight-line program; each action below  *)
(* is one block of it, taken in program order.                             *)
(***************************************************************************)
EXTENDS Integers, Naturals, Sequences, FiniteSets, TLC

VARIABLES pc, addr, meta,
          B, T, E, otype, perms, R, v, warned,
          GL, LD, SD, MC, SL, LM, LG, EX, SR, U0, SE, US,
          p4, p3, p2, p1, p0, taken,
          perm_str,
          e, a_top, a_mid, a_hi, t_hi, c_b, c_t, a_top_base, a_top_top,
          base, top, length,
          otype_str

inputVars == <<addr, meta>>
fieldVars == <<B, T, E, perms, R, v, warned>>
permVars  == <<GL, LD, SD, MC, SL, LM, LG, EX, SR, U0, SE, US,
               p4, p3, p2, p1, p0, taken>>
boundVars == <<a_top, a_mid, a_hi, t_hi, c_b, c_t, a_top_base, a_top_top,
               base, top, length>>
vars == <<pc, inputVars, fieldVars, otype, permVars, perm_str, e, boundVars,
          otype_str>>

(***************************************************************************)
(* Python integers are unbounded and signed.  The address is 32 bits wide, *)
(* the metadata 33 and the decoded top up to 34, so the values that can    *)
(* exceed a machine word are kept as two limbs: value = hi * Limb + lo     *)
(* with 0 <= lo < Limb and hi any (signed) integer.  The representation is *)
(* canonical, so equality of values is equality of records.                *)
(***************************************************************************)
Limb == 2 ^ 16

Big(n) == [hi |-> n \div Limb, lo |-> n % Limb]

Zero == Big(0)
One  == Big(1)

Add(x, y) == [hi |-> x.hi + y.hi + ((x.lo + y.lo) \div Limb),
              lo |-> (x.lo + y.lo) % Limb]

Sub(x, y) == [hi |-> x.hi - y.hi + ((x.lo - y.lo) \div Limb),
              lo |-> (x.lo - y.lo) % Limb]

Lt(x, y) == \/ x.hi < y.hi
            \/ x.hi = y.hi /\ x.lo < y.lo

Le(x, y) == x = y \/ Lt(x, y)

\* x << k for k < 16
ShlBits(x, k) == [hi |-> x.hi * (2 ^ k) + ((x.lo * (2 ^ k)) \div Limb),
                  lo |-> (x.lo * (2 ^ k)) % Limb]

RECURSIVE ShlLimbs(_, _)
\* x << (16 * q)
ShlLimbs(x, q) == IF q = 0 THEN x
                  ELSE ShlLimbs([hi |-> x.hi * Limb + x.lo, lo |-> 0], q - 1)

\* x << k
Shl(x, k) == ShlLimbs(ShlBits(x, k % 16), k \div 16)

\* x >> k for k < 16 (floor, as Python's >> on a negative int)
ShrBits(x, k) == [hi |-> x.hi \div (2 ^ k),
                  lo |-> (x.lo + (x.hi % (2 ^ k)) * Limb) \div (2 ^ k)]

RECURSIVE ShrLimbs(_, _)
\* x >> (16 * q)
ShrLimbs(x, q) == IF q = 0 THEN x
                  ELSE ShrLimbs([hi |-> x.hi \div Limb, lo |-> x.hi % Limb], q - 1)

\* x >> k
Shr(x, k) == ShrLimbs(ShrBits(x, k % 16), k \div 16)

\* x & mask, for a mask 2^n - 1 that fits in one limb
AndMask(x, mask) == x.lo % (mask + 1)

\* Python truthiness of an int
Truthy(n) == n # 0

(***************************************************************************)
(* Field extraction, lines 15-21.                                          *)
(***************************************************************************)
FieldB(m)     == AndMask(m, 511)
FieldT(m)     == AndMask(Shr(m, 9), 511)
FieldE(m)     == AndMask(Shr(m, 18), 15)
FieldOtype(m) == AndMask(Shr(m, 22), 7)
FieldPerms(m) == AndMask(Shr(m, 25), 63)
FieldR(m)     == AndMask(Shr(m, 31), 1)
FieldV(m)     == AndMask(Shr(m, 32), 1)

(***************************************************************************)
(* Permission decoding, lines 26-48.                                       *)
(***************************************************************************)
\* (x >> i) & 1 on a small non-negative int
Bit(x, i) == (x \div (2 ^ i)) % 2

GLOf(p) == Bit(p, 5)
P4OfGlobalBit(p) == Bit(p, 5)

P4Of(p) == Bit(p, 4)
P3Of(p) == Bit(p, 3)
P2Of(p) == Bit(p, 2)
P1Of(p) == Bit(p, 1)
P0Of(p) == Bit(p, 0)

\* line 27: every flag starts at 0; no arm of the chain has run
NoPerms == [LD |-> 0, SD |-> 0, MC |-> 0, SL |-> 0, LM |-> 0, LG |-> 0,
            EX |-> 0, SR |-> 0, U0 |-> 0, SE |-> 0, US |-> 0, taken |-> {}]

\* The chain with the fourth arm tested before the third.
DecodeChainSwapped(b4, b3, b2, b1, b0) ==
    IF Truthy(b4) /\ Truthy(b3)
    THEN [NoPerms EXCEPT !.LD = 1, !.MC = 1, !.SD = 1,
                         !.SL = b2, !.LM = b1, !.LG = b0, !.taken = {1}]
    ELSE IF Truthy(b4) /\ ~Truthy(b3) /\ Truthy(b2)
    THEN [NoPerms EXCEPT !.LD = 1, !.MC = 1,
                         !.LM = b1, !.LG = b0, !.taken = {2}]
    ELSE IF Truthy(b4) /\ ~Truthy(b3) /\ ~Truthy(b2)
    THEN [NoPerms EXCEPT !.LD = b1, !.SD = b0, !.taken = {4}]
    ELSE IF Truthy(b4) /\ ~Truthy(b3) /\ ~Truthy(b2) /\ ~Truthy(b1) /\ ~Truthy(b0)
    THEN [NoPerms EXCEPT !.SD = 1, !.MC = 1, !.taken = {3}]
    ELSE IF ~Truthy(b4) /\ Truthy(b3)
    THEN [NoPerms EXCEPT !.EX = 1, !.LD = 1, !.MC = 1,
                         !.SR = b2, !.LM = b1, !.LG = b0, !.taken = {5}]
    ELSE IF ~Truthy(b4) /\ ~Truthy(3)
    THEN [NoPerms EXCEPT !.U0 = b2, !.SE = b1, !.US = b0, !.taken = {6}]
    ELSE NoPerms

\* lines 34-48: the if/elif chain; taken is the set of arms whose body ran.
\* The last guard is written `not p4 and not 3`: the literal 3, not p3.
DecodeChain(b4, b3, b2, b1, b0) ==
    IF Truthy(b4) /\ Truthy(b3)
    THEN [NoPerms EXCEPT !.LD = 1, !.MC = 1, !.SD = 1,
                         !.SL = b2, !.LM = b1, !.LG = b0, !.taken = {1}]
    ELSE IF Truthy(b4) /\ ~Truthy(b3) /\ Truthy(b2)
    THEN [NoPerms EXCEPT !.LD = 1, !.MC = 1,
                         !.LM = b1, !.LG = b0, !.taken = {2}]
    ELSE IF Truthy(b4) /\ ~Truthy(b3) /\ ~Truthy(b2) /\ ~Truthy(b1) /\ ~Truthy(b0)
    THEN [NoPerms EXCEPT !.SD = 1, !.MC = 1, !.taken = {3}]
    ELSE IF Truthy(b4) /\ ~Truthy(b3) /\ ~Truthy(b2)
    THEN [NoPerms EXCEPT !.LD = b1, !.SD = b0, !.taken = {4}]
    ELSE IF ~Truthy(b4) /\ Truthy(b3)
    THEN [NoPerms EXCEPT !.EX = 1, !.LD = 1, !.MC = 1,
                         !.SR = b2, !.LM = b1, !.LG = b0, !.taken = {5}]
    ELSE IF ~Truthy(b4) /\ ~Truthy(3)
    THEN [NoPerms EXCEPT !.U0 = b2, !.SE = b1, !.US = b0, !.taken = {6}]
    ELSE NoPerms

\* lines 28-48 as a function of the 6-bit perms field
DecodePerms(p) == DecodeChain(P4Of(p), P3Of(p), P2Of(p), P1Of(p), P0Of(p))

\* lines 50-51
Pc(p, c) == IF Truthy(p) THEN c ELSE "-"

\* lines 52-65: the permission string, one element per character
PermStr(gl, f) ==
    <<Pc(gl, "G"), " ",
      Pc(f.LD, "R"), Pc(f.SD, "W"), Pc(f.MC, "c"), Pc(f.LG, "g"), Pc(f.LM, "m"),
      " ", Pc(f.EX, "X"), Pc(f.SR, "a"),
      " ", Pc(f.SE, "S"), Pc(f.US, "U"), Pc(f.U0, "0")>>

(***************************************************************************)
(* Object type shift and effective exponent, lines 67-69.                  *)
(***************************************************************************)
ShiftOtypeAlways(ot, ex) == IF ot # 0 THEN ot + 8 ELSE ot

ShiftOtype(ot, ex) == IF ot # 0 /\ ~Truthy(ex) THEN ot + 8 ELSE ot

EffExpOffByOne(E_) == IF E_ # 15 THEN E_ ELSE 23

EffExp(E_) == IF E_ # 15 THEN E_ ELSE 24

(***************************************************************************)
(* Bounds decompression, lines 71-81.                                      *)
(***************************************************************************)
ATop(a, e_) == Shr(a, e_ + 9)
AMid(a, e_) == AndMask(Shr(a, e_), 511)

AHiInclusive(am, B_) == IF am <= B_ THEN 1 ELSE 0

AHi(am, B_) == IF am < B_ THEN 1 ELSE 0

THiInverted(T_, B_) == IF T_ > B_ THEN 1 ELSE 0

THi(T_, B_) == IF T_ < B_ THEN 1 ELSE 0

CorrB(ah) == -ah

CorrTNoAddr(th, ah) == th

CorrT(th, ah) == th - ah

\* ((x << 9) + m) << e
Combine(x, m, e_) == Shl(Add(Shl(x, 9), Big(m)), e_)

(***************************************************************************)
(* Object type classification, lines 83-91.                                *)
(***************************************************************************)
otypes == (0 :> "unsealed")
          @@ (1 :> "IRQ inherit forward sentry")
          @@ (2 :> "IRQ disable forward sentry")
          @@ (3 :> "IRQ enable forward sentry")
          @@ (4 :> "IRQ disable return sentry")
          @@ (5 :> "IRQ enable return sentry")

Digit == <<"0", "1", "2", "3", "4", "5", "6", "7", "8", "9">>

RECURSIVE Str(_)
\* str(n) for n >= 0, one element per decimal digit
Str(n) == IF n < 10 THEN <<Digit[n + 1]>>
          ELSE Str(n \div 10) \o <<Digit[(n % 10) + 1]>>

\* line 91
OtypeStr(ot) == Str(ot) \o (IF ot \in DOMAIN otypes
                            THEN <<" (", otypes[ot], ")">>
                            ELSE <<>>)

(***************************************************************************)
(* The whole decode of one input, lines 15-80, as a record of its results. *)
(***************************************************************************)
Decode(a, m) ==
    LET pm == FieldPerms(m)
        f  == DecodePerms(pm)
        B_ == FieldB(m)
        T_ == FieldT(m)
        e_ == EffExp(FieldE(m))
        at == ATop(a, e_)
        ah == AHi(AMid(a, e_), B_)
        th == THi(T_, B_)
    IN [GL |-> GLOf(pm),
        LD |-> f.LD, SD |-> f.SD, MC |-> f.MC, SL |-> f.SL, LM |-> f.LM,
        LG |-> f.LG, EX |-> f.EX, SR |-> f.SR, U0 |-> f.U0, SE |-> f.SE,
        US |-> f.US,
        otype |-> ShiftOtype(FieldOtype(m), f.EX),
        base |-> Combine(Add(at, Big(CorrB(ah))), B_, e_),
        top |-> Combine(Add(at, Big(CorrT(th, ah))), T_, e_)]

(***************************************************************************)
(* Inputs.  Lines 4-14 parse the command line into addr and meta; the      *)
(* model starts with both parsed.                                          *)
(***************************************************************************)
\* mantissas within MantEdge of either end of the 9-bit range, and the two
\* about its middle
MantEdge == 1
\* addresses (2k-1) * 2^s and (2k-1) * 2^s - 1 for k in 1 .. MaxAddrOdd
MaxAddrOdd == 2

AddrLimit == Shl(One, 32)

MantSet == {m \in 0 .. 511 : m <= MantEdge \/ m >= 511 - MantEdge}
             \cup {255, 256}

AddrPow == {Shl(Big(2 * k - 1), s) : k \in 1 .. MaxAddrOdd, s \in 0 .. 32}

AddrSet == {a \in AddrPow \cup {Sub(x, One) : x \in AddrPow} :
              Le(Zero, a) /\ Lt(a, AddrLimit)}

\* the metadata word with the given fields at the bit positions of lines 15-21
MakeMeta(v_, R_, perms_, otype_, E_, T_, B_) ==
    Add(Shl(Big(2 * v_ + R_), 31),
        Big(perms_ * (2 ^ 25) + otype_ * (2 ^ 22) + E_ * (2 ^ 18)
            + T_ * (2 ^ 9) + B_))

\* every perms, otype, reserved and tag value, over a few bounds encodings
PermsInputs ==
    {<<a, MakeMeta(v_, R_, p, ot, E_, T_, 0)>> :
        a \in {Zero, Shl(One, 16)}, v_ \in 0 .. 1, R_ \in 0 .. 1,
        p \in 0 .. 63, ot \in 0 .. 7, E_ \in {0, 15}, T_ \in {0, 16}}

\* every exponent, over the sampled addresses and mantissas
BoundsInputs ==
    {<<a, MakeMeta(1, 0, 24, 0, E_, T_, B_)>> :
        a \in AddrSet, E_ \in 0 .. 15, T_ \in MantSet, B_ \in MantSet}

InitWith(inputs) ==
    /\ \E i \in inputs : addr = i[1] /\ meta = i[2]
    /\ pc = "extract"
    /\ B = 0 /\ T = 0 /\ E = 0 /\ otype = 0 /\ perms = 0 /\ R = 0 /\ v = 0
    /\ warned = FALSE
    /\ GL = 0 /\ LD = 0 /\ SD = 0 /\ MC = 0 /\ SL = 0 /\ LM = 0 /\ LG = 0
    /\ EX = 0 /\ SR = 0 /\ U0 = 0 /\ SE = 0 /\ US = 0
    /\ p4 = 0 /\ p3 = 0 /\ p2 = 0 /\ p1 = 0 /\ p0 = 0 /\ taken = {}
    /\ perm_str = <<>>
    /\ e = 0 /\ a_top = Zero /\ a_mid = 0 /\ a_hi = 0 /\ t_hi = 0
    /\ c_b = 0 /\ c_t = 0 /\ a_top_base = Zero /\ a_top_top = Zero
    /\ base = Zero /\ top = Zero /\ length = Zero
    /\ otype_str = <<>>

Init == InitWith(PermsInputs)

InitBounds == InitWith(BoundsInputs)

(***************************************************************************)
(* The script, block by block.                                             *)
(***************************************************************************)
\* lines 15-24
ExtractFields ==
    /\ pc = "extract"
    /\ B' = FieldB(meta)
    /\ T' = FieldT(meta)
    /\ E' = FieldE(meta)
    /\ otype' = FieldOtype(meta)
    /\ perms' = FieldPerms(meta)
    /\ R' = FieldR(meta)
    /\ v' = FieldV(meta)
    /\ warned' = (FieldR(meta) # 0)
    /\ pc' = "perms"
    /\ UNCHANGED <<inputVars, permVars, perm_str, e, boundVars, otype_str>>

\* lines 26-48
DecodePermissions ==
    /\ pc = "perms"
    /\ LET f == DecodePerms(perms) IN
         /\ GL' = GLOf(perms)
         /\ p4' = P4Of(perms) /\ p3' = P3Of(perms) /\ p2' = P2Of(perms)
         /\ p1' = P1Of(perms) /\ p0' = P0Of(perms)
         /\ LD' = f.LD /\ SD' = f.SD /\ MC' = f.MC /\ SL' = f.SL
         /\ LM' = f.LM /\ LG' = f.LG /\ EX' = f.EX /\ SR' = f.SR
         /\ U0' = f.U0 /\ SE' = f.SE /\ US' = f.US
         /\ taken' = f.taken
    /\ pc' = "format"
    /\ UNCHANGED <<inputVars, fieldVars, otype, perm_str, e, boundVars, otype_str>>

\* lines 50-65
FormatPerms ==
    /\ pc = "format"
    /\ perm_str' = PermStr(GL, [LD |-> LD, SD |-> SD, MC |-> MC, LG |-> LG,
                                LM |-> LM, EX |-> EX, SR |-> SR, SE |-> SE,
                                US |-> US, U0 |-> U0])
    /\ pc' = "otype"
    /\ UNCHANGED <<inputVars, fieldVars, otype, permVars, e, boundVars, otype_str>>

\* lines 67-69
ShiftAndExponent ==
    /\ pc = "otype"
    /\ otype' = ShiftOtype(otype, EX)
    /\ e' = EffExp(E)
    /\ pc' = "bounds"
    /\ UNCHANGED <<inputVars, fieldVars, permVars, perm_str, boundVars, otype_str>>

\* lines 71-81
DecompressBounds ==
    /\ pc = "bounds"
    /\ LET at  == ATop(addr, e)
           am  == AMid(addr, e)
           ah  == AHi(am, B)
           th  == THi(T, B)
           cb  == CorrB(ah)
           ct  == CorrT(th, ah)
           atb == Add(at, Big(cb))
           att == Add(at, Big(ct))
           bs  == Combine(atb, B, e)
           tp  == Combine(att, T, e)
       IN
         /\ a_top' = at /\ a_mid' = am /\ a_hi' = ah /\ t_hi' = th
         /\ c_b' = cb /\ c_t' = ct
         /\ a_top_base' = atb /\ a_top_top' = att
         /\ base' = bs /\ top' = tp
         /\ length' = Sub(tp, bs)
    /\ pc' = "classify"
    /\ UNCHANGED <<inputVars, fieldVars, otype, permVars, perm_str, e, otype_str>>

\* lines 83-94
ClassifyOtype ==
    /\ pc = "classify"
    /\ otype_str' = OtypeStr(otype)
    /\ pc' = "done"
    /\ UNCHANGED <<inputVars, fieldVars, otype, permVars, perm_str, e, boundVars>>

Next ==
    \/ ExtractFields
    \/ DecodePermissions
    \/ FormatPerms
    \/ ShiftAndExponent
    \/ DecompressBounds
    \/ ClassifyOtype

Spec == Init /\ [][Next]_vars

SpecBounds == InitBounds /\ [][Next]_vars

(***************************************************************************)
(* Properties.                                                             *)
(***************************************************************************)
PermsDecoded == pc \in {"format", "otype", "bounds", "classify", "done"}
ExpSet       == pc \in {"bounds", "classify", "done"}
Done         == pc = "done"

\* the sub-bits of the perms field and the other inputs, read off the inputs
InP(i)   == (FieldPerms(meta) \div (2 ^ i)) % 2
RawOtype == FieldOtype(meta)
InE      == FieldE(meta)
InT      == FieldT(meta)
InB      == FieldB(meta)
Eff      == IF InE = 15 THEN 24 ELSE InE
AddrMid  == AndMask(Shr(addr, Eff), 511)

\* the flags other than GL, in the order LD,SD,MC,SL,LM,LG,EX,SR,U0,SE,US
Flags == <<LD, SD, MC, SL, LM, LG, EX, SR, U0, SE, US>>

\* C1: when p4=1 or p3=1 the decoder sets exactly the flags of the first
\* matching row of the priority table, and every other flag is false.
C1_FirstMatchingRow ==
    PermsDecoded /\ (InP(4) = 1 \/ InP(3) = 1) =>
        /\ (InP(4) = 1 /\ InP(3) = 1) =>
              Flags = <<1, 1, 1, InP(2), InP(1), InP(0), 0, 0, 0, 0, 0>>
        /\ (InP(4) = 1 /\ InP(3) = 0 /\ InP(2) = 1) =>
              Flags = <<1, 0, 1, 0, InP(1), InP(0), 0, 0, 0, 0, 0>>
        /\ (InP(4) = 1 /\ InP(3) = 0 /\ InP(2) = 0 /\ InP(1) = 0 /\ InP(0) = 0) =>
              Flags = <<0, 1, 1, 0, 0, 0, 0, 0, 0, 0, 0>>
        /\ (InP(4) = 1 /\ InP(3) = 0 /\ InP(2) = 0 /\ <<InP(1), InP(0)>> # <<0, 0>>) =>
              Flags = <<InP(1), InP(0), 0, 0, 0, 0, 0, 0, 0, 0, 0>>
        /\ (InP(4) = 0 /\ InP(3) = 1) =>
              Flags = <<1, 0, 1, 0, InP(1), InP(0), 1, InP(2), 0, 0, 0>>

\* the overlap case of rows three and four has been decoded as row three
C1_Witness ==
    /\ Done
    /\ InP(4) = 1 /\ InP(3) = 0 /\ InP(2) = 0 /\ InP(1) = 0 /\ InP(0) = 0
    /\ SD = 1 /\ MC = 1 /\ LD = 0

\* C2: when p4=0 and p3=0 the fallback rule fires: U0=p2, SE=p1, US=p0 and
\* LD, SD, MC, SL, LM, LG, EX, SR are all false.
C2_FallbackFires ==
    PermsDecoded /\ InP(4) = 0 /\ InP(3) = 0 =>
        Flags = <<0, 0, 0, 0, 0, 0, 0, 0, InP(2), InP(1), InP(0)>>

\* C3: for every pattern of (p4,p3,p2,p1,p0) exactly one arm of the
\* permission chain runs: never none and never more than one.
C3_ExactlyOneArm == PermsDecoded => Cardinality(taken) = 1

\* the metadata word with bit 5 of the perms field (bit 30) toggled
ToggleGL(m) == IF AndMask(Shr(m, 30), 1) = 1
               THEN Sub(m, Shl(One, 30))
               ELSE Add(m, Shl(One, 30))

\* C4: an input that differs only in bit 5 of perms decodes to the same
\* LD..US flags, base, top and corrected object type; only GL differs, and GL
\* is bit 5 of perms.
C4_GlobalIndependence ==
    Done =>
        LET o == Decode(addr, ToggleGL(meta)) IN
          /\ <<o.LD, o.SD, o.MC, o.SL, o.LM, o.LG, o.EX, o.SR, o.U0, o.SE, o.US>>
               = Flags
          /\ o.base = base /\ o.top = top /\ o.otype = otype
          /\ o.GL # GL
          /\ GL = InP(5)

\* a global capability with some other flag set has been decoded
C4_Witness == Done /\ GL = 1 /\ InP(5) = 1 /\ EX = 1 /\ otype = 3

RECURSIVE BitOr(_, _)
\* a | b on small non-negative ints
BitOr(a, b) == IF a = 0 THEN b
               ELSE IF b = 0 THEN a
               ELSE (IF a % 2 = 1 \/ b % 2 = 1 THEN 1 ELSE 0)
                    + 2 * BitOr(a \div 2, b \div 2)

\* ((addr >> (e+9)) << 9 | m) << e: the concatenation without correction
Naive(m) ==
    LET x == Shl(Shr(addr, Eff + 9), 9) IN
      Shl([x EXCEPT !.lo = (x.lo - (x.lo % 512)) + BitOr(x.lo % 512, m)], Eff)

\* C5: when addrMid >= B and T < B, top is exactly 512 * 2^e above the
\* uncorrected concatenation with T, and base is the uncorrected
\* concatenation with B.
C5_WraparoundCorrection ==
    Done /\ AddrMid >= InB /\ InT < InB =>
        /\ top = Add(Naive(InT), Shl(Big(512), Eff))
        /\ base = Naive(InB)

\* the top mantissa wrapped and the address mantissa did not, above window 0
C5_Witness ==
    /\ Done /\ AddrMid >= InB /\ InT < InB
    /\ Lt(Zero, a_top) /\ t_hi = 1 /\ a_hi = 0
    /\ Lt(addr, top)

\* C6: base >= 0 and top >= 0 for every 32-bit address and every E, T, B.
C6_Unsigned == Done => Le(Zero, base) /\ Le(Zero, top)

\* a sentry label appears in the printed object type
HasLabel(l) == \E i \in 1 .. Len(otype_str) : otype_str[i] = l
SentryLabels == {otypes[i] : i \in 1 .. 5}

\* C7: the classified otype is the raw otype when it is 0 or EX is set, and
\* raw + 8 otherwise; so a sentry label needs EX, "unsealed" needs raw otype
\* 0, and a sealed non-executable capability is an unlabelled code in 9..15.
C7_OtypeShift ==
    Done =>
        /\ otype = IF RawOtype = 0 \/ EX = 1 THEN RawOtype ELSE RawOtype + 8
        /\ (\E l \in SentryLabels : HasLabel(l)) => EX = 1
        /\ HasLabel("unsealed") => RawOtype = 0
        /\ (RawOtype # 0 /\ EX = 0) =>
              /\ otype \in 9 .. 15
              /\ otype_str = Str(otype)
        /\ (RawOtype = 2 /\ EX = 0) => otype_str = <<"1", "0">>
        /\ (RawOtype = 2 /\ EX = 1) =>
              otype_str = <<"2", " (", "IRQ disable forward sentry", ")">>

\* otype 2 without EX has been classified as the unlabelled code 10
C7_Witness == Done /\ RawOtype = 2 /\ EX = 0 /\ otype = 10
              /\ otype_str = <<"1", "0">>

\* C8: e = 24 when E = 15 and e = E otherwise, and B = T = 0 at address 0
\* decodes to base = top = 0 under every E.
C8_ExponentBoundary ==
    /\ ExpSet => e = (IF InE = 15 THEN 24 ELSE InE)
    /\ (Done /\ InB = 0 /\ InT = 0 /\ addr = Zero) => base = Zero /\ top = Zero

\* the reserved exponent has been decoded on the all-zero bounds
C8_Witness == Done /\ InE = 15 /\ e = 24 /\ InB = 0 /\ InT = 0 /\ addr = Zero
              /\ base = Zero /\ top = Zero

\* C9: top - base = ((T - B) mod 512) * 2^e for every address, so
\* top >= base and the length lies in 0 .. 511 * 2^e.
C9_Length ==
    Done =>
        /\ Sub(top, base) = Shl(Big((InT - InB) % 512), Eff)
        /\ Le(base, top)
        /\ Le(Zero, Sub(top, base))
        /\ Le(Sub(top, base), Shl(Big(511), Eff))

\* both mantissas wrapped: the address is below B and T is below B
C9_Witness == Done /\ a_hi = 1 /\ t_hi = 1 /\ InT < InB /\ InE = 15
              /\ Lt(base, top)

\* C10: 0 <= address - base < 2^(e+9).
C10_BaseWindow ==
    Done =>
        /\ Le(Zero, Sub(addr, base))
        /\ Lt(Sub(addr, base), Shl(One, Eff + 9))

\* the base was corrected one window down and is still within a window
C10_Witness == Done /\ a_hi = 1 /\ c_b = -1 /\ Lt(Zero, a_top) /\ Lt(base, addr)

====
